---- MODULE Spec2Model ----
(***************************************************************************)
(* Verification model of the basics-cpp teaching snippets:                 *)
(*   - algorithms/modifyingSequenceOperations/move_backward                *)
(*   - algorithms/modifyingSequenceOperations/shift_left (and struct S)    *)
(*   - inheritance/example (Account_util batch helpers)                    *)
(*   - operatorOverloading/assignmentOperator(move) (class String)         *)
(*   - standardTemplateLibrary/sequenceContainerArray (std::array tour)    *)
(* The snippets share no state; each has its own specification, in which   *)
(* the variables of the other snippets stay at their idle values.          *)
(***************************************************************************)
EXTENDS Integers, Sequences, FiniteSets, Bags, TLC

VARIABLES
    \* ---- move_backward/index.cpp
    src,        \* container src (main, line 38)
    dst,        \* container dst (main, line 39)
    first,      \* iterator into src (0-based offset)
    last,       \* iterator into src
    d_last,     \* iterator into the destination container
    d_cont,     \* which container d_last points into: "src" or "dst"
    mb_pc,      \* "idle" | "loop" | "done"
    mb_ret,     \* the returned iterator
    mb_call,    \* the call's arguments and the containers at the call
    \* ---- shift_left/index.cpp: std::shift_left over a vector<T>
    vec,        \* the vector (a, b or c of main)
    kind,       \* its element type T: "S" | "int" | "string"
    sh_n,       \* the shift count n
    sh_i,       \* elements moved so far
    sh_pc,      \* "idle" | "loop" | "done"
    sh_orig,    \* the vector at the call
    \* ---- shift_left/index.cpp: objects of struct S
    objs,       \* the storage of the S objects
    s_live,     \* the slots holding an object within its lifetime
    s_op,       \* the last operation and its two operands before it
    \* ---- inheritance/example/Account_util.cpp
    accounts,          \* std::vector<Account>: the balance of each account
    saving_accounts,   \* std::vector<Saving_account>: the balance of each
    acc_out,           \* the lines the last batch call wrote to std::cout
    acc_op,            \* the last batch call and its collection before it
    \* ---- operatorOverloading/assignmentOperator(move)/String.h
    strs,       \* the String objects: alive, and the member char *str
    heap,       \* the character buffers: state, text, times released
    str_op,     \* the last operation and the texts of its operands before it
    \* ---- standardTemplateLibrary/sequenceContainerArray/index.cpp
    arr1,       \* std::array<int, 5> arr1 (test1, test2; arr of test4)
    arr2,       \* std::array<int, 5> arr2
    arr_op      \* the last operation and what it needs of the arrays before it

mb_vars == <<src, dst, first, last, d_last, d_cont, mb_pc, mb_ret, mb_call>>
sh_vars == <<vec, kind, sh_n, sh_i, sh_pc, sh_orig>>
s_vars == <<objs, s_live, s_op>>

acc_vars == <<accounts, saving_accounts, acc_out, acc_op>>

str_vars == <<strs, heap, str_op>>

arr_vars == <<arr1, arr2, arr_op>>

vars == <<mb_vars, sh_vars, s_vars, acc_vars, str_vars, arr_vars>>

\* What each snippet's operations leave alone: the other snippets.
mb_rest == <<sh_vars, s_vars, acc_vars, str_vars, arr_vars>>
sh_rest == <<mb_vars, s_vars, acc_vars, str_vars, arr_vars>>
s_rest == <<mb_vars, sh_vars, acc_vars, str_vars, arr_vars>>
acc_rest == <<mb_vars, sh_vars, s_vars, str_vars, arr_vars>>
str_rest == <<mb_vars, sh_vars, s_vars, acc_vars, arr_vars>>
arr_rest == <<mb_vars, sh_vars, s_vars, acc_vars, str_vars>>

(***************************************************************************)
(* Bounds                                                                  *)
(***************************************************************************)
SrcLen == 3
DstLen == 2
MaxLen == 4
NumObj == 2
MaxValue == 2
NumAccounts == 2
NumSaving == 1
MaxBalance == 3
MaxAmount == 2
NumStr == 2
MaxBuf == 3
MaxElem == 1

(***************************************************************************)
(* std::string values and their move assignment                            *)
(***************************************************************************)
Strings == {"foo", "bar", "baz"}
DstStrings == {"qux"}

\* A moved-from std::string is "valid but unspecified": it may be left empty
\* or still hold its old text.
MovedFromString(v) == {"", v}

(***************************************************************************)
(* move_backward                                                           *)
(***************************************************************************)
NoCall == [first |-> 0, last |-> 0, d_last |-> 0, src |-> <<>>, dst |-> <<>>]

MBIdle ==
    /\ src = <<>> /\ dst = <<>>
    /\ first = 0 /\ last = 0 /\ d_last = 0 /\ d_cont = "src"
    /\ mb_pc = "idle" /\ mb_ret = 0 /\ mb_call = NoCall

MBInit ==
    /\ src \in [1..SrcLen -> Strings]
    /\ dst \in [1..DstLen -> DstStrings]
    /\ first = 0 /\ last = 0 /\ d_last = 0 /\ d_cont = "src"
    /\ mb_pc = "idle" /\ mb_ret = 0 /\ mb_call = NoCall

\* The container an iterator of d_cont points into.
Dest == IF d_cont = "src" THEN src ELSE dst

\* main, lines 41 and 46: a call move_backward(first, last, d_last) with
\* [first, last) a range of src and room for last - first elements before
\* d_last in the destination container.
MBCall ==
    /\ mb_pc = "idle"
    /\ \E f \in 0..Len(src), l \in 0..Len(src), c \in {"src", "dst"} :
        \E d \in 0..Len(IF c = "src" THEN src ELSE dst) :
            /\ f <= l
            /\ l - f <= d
            /\ first' = f /\ last' = l /\ d_last' = d /\ d_cont' = c
            /\ mb_call' = [first |-> f, last |-> l, d_last |-> d,
                           src |-> src, dst |-> dst]
    /\ mb_pc' = "loop"
    /\ UNCHANGED <<src, dst, mb_ret, mb_rest>>

\* The loop body with the elements taken from the front of the range:
\* *(--d_last) = std::move(*(first++));
MBStepReversed ==
    /\ mb_pc = "loop"
    /\ first # last
    /\ \E left \in MovedFromString(src[first + 1]) :
        LET v == src[first + 1]
            d == d_last - 1
        IN  /\ first' = first + 1
            /\ d_last' = d
            /\ IF d_cont = "src"
                 THEN /\ src' = IF d = first
                                  THEN [src EXCEPT ![first + 1] = left]
                                  ELSE [src EXCEPT ![d + 1] = v, ![first + 1] = left]
                      /\ dst' = dst
                 ELSE /\ dst' = [dst EXCEPT ![d + 1] = v]
                      /\ src' = [src EXCEPT ![first + 1] = left]
    /\ UNCHANGED <<last, d_cont, mb_pc, mb_ret, mb_call, mb_rest>>

\* The loop body writing one cell too low, where there is one.
MBStepShifted ==
    /\ mb_pc = "loop"
    /\ first # last
    /\ \E left \in MovedFromString(src[last]) :
        LET l == last - 1
            d == IF d_last >= 2 THEN d_last - 2 ELSE d_last - 1
            v == src[l + 1]
        IN  /\ last' = l
            /\ d_last' = d_last - 1
            /\ IF d_cont = "src"
                 THEN /\ src' = IF d = l
                                  THEN [src EXCEPT ![l + 1] = left]
                                  ELSE [src EXCEPT ![d + 1] = v, ![l + 1] = left]
                      /\ dst' = dst
                 ELSE /\ dst' = [dst EXCEPT ![d + 1] = v]
                      /\ src' = [src EXCEPT ![l + 1] = left]
    /\ UNCHANGED <<first, d_cont, mb_pc, mb_ret, mb_call, mb_rest>>

\* One iteration of the loop as written: *(--d_last) = std::move(*(--last));
\* cell offsets are 0-based, sequence indices 1-based.
MBStep ==
    /\ mb_pc = "loop"
    /\ first # last
    /\ \E left \in MovedFromString(src[last]) :
        LET l == last - 1
            d == d_last - 1
            v == src[l + 1]
        IN  /\ last' = l
            /\ d_last' = d
            /\ IF d_cont = "src"
                 THEN \* a self-move (d = l) leaves the one cell unspecified
                      /\ src' = IF d = l
                                  THEN [src EXCEPT ![l + 1] = left]
                                  ELSE [src EXCEPT ![d + 1] = v, ![l + 1] = left]
                      /\ dst' = dst
                 ELSE /\ dst' = [dst EXCEPT ![d + 1] = v]
                      /\ src' = [src EXCEPT ![l + 1] = left]
    /\ UNCHANGED <<first, d_cont, mb_pc, mb_ret, mb_call, mb_rest>>

\* The loop's exit: return d_last;
MBReturn ==
    /\ mb_pc = "loop"
    /\ first = last
    /\ mb_ret' = d_last
    /\ mb_pc' = "done"
    /\ UNCHANGED <<src, dst, first, last, d_last, d_cont, mb_call, mb_rest>>

MBNext == MBCall \/ MBStep \/ MBReturn

\* The call's n = last - first and whether its d_last lies inside (first, last].
MBn == mb_call.last - mb_call.first

MBdLastInside ==
    /\ d_cont = "src"
    /\ mb_call.first < mb_call.d_last
    /\ mb_call.d_last <= mb_call.last

\* C1: after move_backward(first, last, d_last) with d_last outside
\* (first, last], the n slots [d_last - n, d_last) hold the original source
\* values in their original order, and d_last - n is returned.
C1_MoveBackwardRelocates ==
    (mb_pc = "done" /\ ~MBdLastInside) =>
        /\ mb_ret = mb_call.d_last - MBn
        /\ \A k \in 0..(MBn - 1) :
              Dest[mb_call.d_last - MBn + k + 1] = mb_call.src[mb_call.first + k + 1]

\* The overlapping case finished: the range was shifted toward its own tail.
C1_Witness ==
    /\ mb_pc = "done"
    /\ d_cont = "src"
    /\ MBn >= 2
    /\ mb_call.d_last > mb_call.last
    /\ mb_call.d_last - MBn < mb_call.last
    /\ mb_call.src[mb_call.first + 1] # mb_call.src[mb_call.first + 2]

Values == 0..MaxValue

\* int value{0}; bool specified_state{true};
S_Default == [value |-> 0, specified_state |-> TRUE]

\* S(int v = 0) : value{v} {}
S_Ctor(v) == [value |-> v, specified_state |-> TRUE]

\* S& operator=(S const& rhs) = default;  (memberwise copy; rhs is const)
S_CopyAssign(this, rhs) == [this |-> rhs, rhs |-> rhs]

\* S& operator=(S&& rhs); `same` tells whether this == &rhs.  The result is
\* the pair of objects afterwards (one object twice when same).
\* operator=(S&&) without line 22 (rhs.specified_state = false).
S_MoveAssignKeepsFlag(this, rhs, same) ==
    IF ~same
      THEN [this |-> [value |-> rhs.value, specified_state |-> rhs.specified_state],
            rhs  |-> rhs]
      ELSE [this |-> this, rhs |-> this]

\* operator=(S&&) without line 20 (value = rhs.value).
S_MoveAssignDropsValue(this, rhs, same) ==
    IF ~same
      THEN [this |-> [value |-> this.value, specified_state |-> rhs.specified_state],
            rhs  |-> [rhs EXCEPT !.specified_state = FALSE]]
      ELSE [this |-> this, rhs |-> this]

\* operator=(S&&) without the test of line 18 (this != &rhs).
S_MoveAssignNoSelfCheck(this, rhs, same) ==
    IF ~same
      THEN [this |-> [value |-> rhs.value, specified_state |-> rhs.specified_state],
            rhs  |-> [rhs EXCEPT !.specified_state = FALSE]]
      ELSE [this |-> [this EXCEPT !.specified_state = FALSE],
            rhs  |-> [this EXCEPT !.specified_state = FALSE]]

\* operator=(S&&) as written.
S_MoveAssign(this, rhs, same) ==
    IF ~same
      THEN [this |-> [value |-> rhs.value, specified_state |-> rhs.specified_state],
            rhs  |-> [rhs EXCEPT !.specified_state = FALSE]]
      ELSE [this |-> this, rhs |-> this]

\* S(S const& rhs) = default;
S_CopyCtor(rhs) == [this |-> rhs, rhs |-> rhs]

\* S(S&& rhs) { *this = std::move(rhs); }  (the members are default-initialized
\* first; a new object is never its own source)
S_MoveCtor(rhs) == S_MoveAssign(S_Default, rhs, FALSE)

(***************************************************************************)
(* std::shift_left(begin(v), end(v), n) over vector<S>, vector<int> and    *)
(* vector<std::string> (main, lines 47-62)                                 *)
(***************************************************************************)
Kinds == {"S", "int", "string"}

Elements(k) ==
    CASE k = "S"      -> {S_Ctor(v) : v \in 1..MaxValue}
      [] k = "int"    -> 1..MaxValue
      [] k = "string" -> Strings

\* *dest = std::move(*from) for two distinct elements of type k: the pairs
\* (this, rhs) that may result.
MoveAssignElem(k, this, rhs) ==
    CASE k = "S"      -> {S_MoveAssign(this, rhs, FALSE)}
      [] k = "int"    -> {[this |-> rhs, rhs |-> rhs]}
      [] k = "string" -> {[this |-> rhs, rhs |-> l] : l \in MovedFromString(rhs)}

SeqsUpTo(S, n) == UNION {[1..m -> S] : m \in 0..n}

ShiftIdle ==
    /\ vec = <<>> /\ kind = "int" /\ sh_n = 0 /\ sh_i = 0
    /\ sh_pc = "idle" /\ sh_orig = <<>>

\* main, lines 47-49: the vectors are built from values, every S specified.
ShiftInit ==
    /\ kind \in Kinds
    /\ vec \in SeqsUpTo(Elements(kind), MaxLen)
    /\ sh_n = 0 /\ sh_i = 0 /\ sh_pc = "idle" /\ sh_orig = <<>>

\* std::shift_left(first, last, n): no effects if n == 0 or n >= last - first
\* (line 59: "has no effect: n >= last - first"); a negative n is not passed
\* (line 64).
ShiftCall(n) ==
    /\ sh_pc \in {"idle", "done"}
    /\ sh_n' = n
    /\ sh_i' = 0
    /\ sh_orig' = vec
    /\ sh_pc' = IF n = 0 \/ n >= Len(vec) THEN "done" ELSE "loop"
    /\ UNCHANGED <<vec, kind, sh_rest>>

\* Otherwise the element at first + n + i is moved into first + i, for
\* i = 0, 1, ..., (last - first) - n - 1 in this order.
ShiftStep ==
    /\ sh_pc = "loop"
    /\ sh_i < Len(vec) - sh_n
    /\ \E r \in MoveAssignElem(kind, vec[sh_i + 1], vec[sh_n + sh_i + 1]) :
        vec' = [vec EXCEPT ![sh_i + 1] = r.this, ![sh_n + sh_i + 1] = r.rhs]
    /\ sh_i' = sh_i + 1
    /\ UNCHANGED <<kind, sh_n, sh_pc, sh_orig, sh_rest>>

ShiftReturn ==
    /\ sh_pc = "loop"
    /\ sh_i = Len(vec) - sh_n
    /\ sh_pc' = "done"
    /\ UNCHANGED <<vec, kind, sh_n, sh_i, sh_orig, sh_rest>>

ShiftNext ==
    \/ \E n \in 0..(MaxLen + 1) : ShiftCall(n)
    \/ ShiftStep
    \/ ShiftReturn

\* The value an element of type k carries (an S also carries its flag).
ValueOf(k, e) == IF k = "S" THEN e.value ELSE e

\* C3: after shift_left by c on a range of length L: for 0 <= c < L the first
\* L - c elements equal the original elements at offsets c .. L-1, in order;
\* for c >= L the whole range is unchanged, values and flags.
C3_ShiftLeftMoves ==
    sh_pc = "done" =>
        /\ Len(vec) = Len(sh_orig)
        /\ sh_n < Len(vec) =>
              \A i \in 1..(Len(vec) - sh_n) :
                  /\ ValueOf(kind, vec[i]) = ValueOf(kind, sh_orig[i + sh_n])
                  /\ kind = "S" => vec[i].specified_state = sh_orig[i + sh_n].specified_state
        /\ sh_n >= Len(vec) => vec = sh_orig

\* A shift of a vector<S> by 0 < c < L has finished on elements whose values
\* differ, at least two of them moved.
C3_Witness ==
    /\ sh_pc = "done" /\ kind = "S"
    /\ 0 < sh_n /\ sh_n + 1 < Len(vec)
    /\ sh_orig[sh_n + 1].value # sh_orig[1].value
    /\ sh_orig[sh_n + 2].value # sh_orig[sh_n + 1].value

AllSpecified(v) == \A i \in 1..Len(v) : v[i].specified_state

\* C4 as stated: after shift_left by 0 < c < L on a vector<S> whose elements
\* were all specified, each of the trailing c elements has specified_state
\* false and each of the first L - c elements has it true.
C4_AsStated ==
    (sh_pc = "done" /\ kind = "S" /\ AllSpecified(sh_orig)
        /\ 0 < sh_n /\ sh_n < Len(vec)) =>
        \A i \in 1..Len(vec) :
            vec[i].specified_state = (i <= Len(vec) - sh_n)

Min(x, y) == IF x <= y THEN x ELSE y

\* C4 amended: after shift_left by 0 < c < L on a vector<S> whose elements
\* were all specified, each of the first L - c elements has specified_state
\* true and each of the trailing min(c, L - c) elements has it false; when
\* c > L - c the elements at offsets L - c .. c - 1 are neither moved from
\* nor assigned to, and stay as they were (specified).
C4_ShiftLeftFlags ==
    (sh_pc = "done" /\ kind = "S" /\ AllSpecified(sh_orig)
        /\ 0 < sh_n /\ sh_n < Len(vec)) =>
        \A i \in 1..Len(vec) :
            /\ i <= Len(vec) - sh_n => vec[i].specified_state
            /\ i > Len(vec) - Min(sh_n, Len(vec) - sh_n) => ~vec[i].specified_state
            /\ (Len(vec) - sh_n < i /\ i <= sh_n) => vec[i] = sh_orig[i]

\* A shift of a specified vector<S> by more than half its length has finished:
\* some trailing element was never moved from.
C4_Witness ==
    /\ sh_pc = "done" /\ kind = "S" /\ AllSpecified(sh_orig)
    /\ 0 < sh_n /\ sh_n < Len(vec) /\ 2 * sh_n > Len(vec)

(***************************************************************************)
(* Objects of struct S under construction, copy, move and destruction      *)
(***************************************************************************)
Slots == 1..NumObj

NoOp == [op |-> "none", this |-> 0, rhs |-> 0,
         this_before |-> S_Default, rhs_before |-> S_Default]

SIdle == objs = [i \in Slots |-> S_Default] /\ s_live = {} /\ s_op = NoOp

SInit == SIdle

Did(o, i, j) == [op |-> o, this |-> i, rhs |-> j,
                 this_before |-> objs[i], rhs_before |-> objs[j]]

\* S x(v);
SConstruct(i, v) ==
    /\ i \notin s_live
    /\ objs' = [objs EXCEPT ![i] = S_Ctor(v)]
    /\ s_live' = s_live \cup {i}
    /\ s_op' = Did("ctor", i, i)
    /\ UNCHANGED s_rest

\* S x(y);
SCopyConstruct(i, j) ==
    /\ i \notin s_live /\ j \in s_live
    /\ LET r == S_CopyCtor(objs[j])
       IN  objs' = [objs EXCEPT ![i] = r.this, ![j] = r.rhs]
    /\ s_live' = s_live \cup {i}
    /\ s_op' = Did("copy_ctor", i, j)
    /\ UNCHANGED s_rest

\* S x(std::move(y));
SMoveConstruct(i, j) ==
    /\ i \notin s_live /\ j \in s_live
    /\ LET r == S_MoveCtor(objs[j])
       IN  objs' = [objs EXCEPT ![i] = r.this, ![j] = r.rhs]
    /\ s_live' = s_live \cup {i}
    /\ s_op' = Did("move_ctor", i, j)
    /\ UNCHANGED s_rest

\* x = y;  (x and y may be one object)
SCopyAssign(i, j) ==
    /\ i \in s_live /\ j \in s_live
    /\ LET r == S_CopyAssign(objs[i], objs[j])
       IN  objs' = [objs EXCEPT ![i] = r.this, ![j] = r.rhs]
    /\ s_live' = s_live
    /\ s_op' = Did("copy_assign", i, j)
    /\ UNCHANGED s_rest

\* x = std::move(y);  (x and y may be one object)
SMoveAssign(i, j) ==
    /\ i \in s_live /\ j \in s_live
    /\ LET r == S_MoveAssign(objs[i], objs[j], i = j)
       IN  objs' = [objs EXCEPT ![i] = r.this, ![j] = r.rhs]
    /\ s_live' = s_live
    /\ s_op' = Did("move_assign", i, j)
    /\ UNCHANGED s_rest

\* The end of an object's lifetime (S has the implicit destructor).
SDestroy(i) ==
    /\ i \in s_live
    /\ objs' = [objs EXCEPT ![i] = S_Default]
    /\ s_live' = s_live \ {i}
    /\ s_op' = Did("dtor", i, i)
    /\ UNCHANGED s_rest

SNext ==
    \/ \E i \in Slots, v \in Values : SConstruct(i, v)
    \/ \E i \in Slots, j \in Slots : SCopyConstruct(i, j)
    \/ \E i \in Slots, j \in Slots : SMoveConstruct(i, j)
    \/ \E i \in Slots, j \in Slots : SCopyAssign(i, j)
    \/ \E i \in Slots, j \in Slots : SMoveAssign(i, j)
    \/ \E i \in Slots : SDestroy(i)

\* C5 as stated: after any move construction or move assignment the source's
\* specified_state is false, and a copy leaves the source as it was and makes
\* the destination equal to it.
C5_AsStated ==
    /\ s_op.op \in {"move_ctor", "move_assign"} =>
          ~objs[s_op.rhs].specified_state
    /\ s_op.op \in {"copy_ctor", "copy_assign"} =>
          /\ objs[s_op.rhs] = s_op.rhs_before
          /\ objs[s_op.this] = s_op.rhs_before

\* C5 amended: after a move construction, or a move assignment between two
\* distinct objects, the source's specified_state is false and the
\* destination holds the source's former value and flag; a move assignment of
\* an object to itself leaves it as it was; a copy construction or copy
\* assignment leaves the source as it was and makes the destination equal.
C5_MoveClearsDistinctSource ==
    /\ (s_op.op \in {"move_ctor", "move_assign"} /\ s_op.this # s_op.rhs) =>
          /\ ~objs[s_op.rhs].specified_state
          /\ objs[s_op.rhs].value = s_op.rhs_before.value
          /\ objs[s_op.this] = s_op.rhs_before
    /\ (s_op.op = "move_assign" /\ s_op.this = s_op.rhs) =>
          objs[s_op.this] = s_op.this_before
    /\ s_op.op \in {"copy_ctor", "copy_assign"} =>
          /\ objs[s_op.rhs] = s_op.rhs_before
          /\ objs[s_op.this] = s_op.rhs_before

\* A specified object was just moved from by another object's move assignment.
C5_Witness ==
    /\ s_op.op = "move_assign"
    /\ s_op.this # s_op.rhs
    /\ s_op.rhs_before.specified_state
    /\ s_op.rhs_before.value # s_op.this_before.value

(***************************************************************************)
(* inheritance/example: Account, Saving_account and the batch helpers of   *)
(* Account_util.cpp                                                        *)
(***************************************************************************)
Amounts == (-1)..MaxAmount
Balances == 0..MaxBalance

\* bool Account::deposit(double amount): succeeds, adding amount to the
\* balance, iff amount > 0.  The result is the outcome and the balance after.
Account_deposit(balance, amount) ==
    IF amount > 0
      THEN [ok |-> TRUE, balance |-> balance + amount]
      ELSE [ok |-> FALSE, balance |-> balance]

\* bool Account::withdraw(double amount): succeeds, taking amount from the
\* balance, iff amount > 0 and amount <= balance.
Account_withdraw(balance, amount) ==
    IF amount > 0 /\ amount <= balance
      THEN [ok |-> TRUE, balance |-> balance - amount]
      ELSE [ok |-> FALSE, balance |-> balance]

\* bool Saving_account::deposit(double amount): the deposit of Account.
Saving_account_deposit(balance, amount) == Account_deposit(balance, amount)

NoBatch == [op |-> "none", amount |-> 0, before |-> <<>>]

AccIdle ==
    /\ accounts = <<>> /\ saving_accounts = <<>>
    /\ acc_out = <<>> /\ acc_op = NoBatch

AccInit ==
    /\ accounts \in [1..NumAccounts -> Balances]
    /\ saving_accounts \in [1..NumSaving -> Balances]
    /\ acc_out = <<>> /\ acc_op = NoBatch

\* The model keeps balances within MaxBalance.
Fits(balances, amount) ==
    \A i \in 1..Len(balances) : amount > 0 => balances[i] + amount <= MaxBalance

\* One line of output per account: "Deposited"/"Withdraw" (ok) or "Failed ..."
\* with the account as it is after the call.
Line(r) == [ok |-> r.ok, balance |-> r.balance]

\* void deposit(std::vector<Account> &accounts, double amount)
\* The loop over copies of the accounts (for (auto account : accounts)).
DepositByValue(amount) ==
    /\ Fits(accounts, amount)
    /\ LET r == [i \in 1..Len(accounts) |-> Account_deposit(accounts[i], amount)]
       IN  /\ accounts' = accounts
           /\ acc_out' = [i \in 1..Len(accounts) |-> Line(r[i])]
    /\ acc_op' = [op |-> "deposit", amount |-> amount, before |-> accounts]
    /\ UNCHANGED <<saving_accounts, acc_rest>>

\* The loop over the accounts themselves (auto &account), as written.
Deposit(amount) ==
    /\ Fits(accounts, amount)
    /\ LET r == [i \in 1..Len(accounts) |-> Account_deposit(accounts[i], amount)]
       IN  /\ accounts' = [i \in 1..Len(accounts) |-> r[i].balance]
           /\ acc_out' = [i \in 1..Len(accounts) |-> Line(r[i])]
    /\ acc_op' = [op |-> "deposit", amount |-> amount, before |-> accounts]
    /\ UNCHANGED <<saving_accounts, acc_rest>>

\* void withdraw(std::vector<Account> &accounts, double amount)
\* The loop over copies of the accounts (for (auto account : accounts)).
WithdrawByValue(amount) ==
    /\ LET r == [i \in 1..Len(accounts) |-> Account_withdraw(accounts[i], amount)]
       IN  /\ accounts' = accounts
           /\ acc_out' = [i \in 1..Len(accounts) |-> Line(r[i])]
    /\ acc_op' = [op |-> "withdraw", amount |-> amount, before |-> accounts]
    /\ UNCHANGED <<saving_accounts, acc_rest>>

\* The loop over the accounts themselves (auto &account), as written.
Withdraw(amount) ==
    /\ LET r == [i \in 1..Len(accounts) |-> Account_withdraw(accounts[i], amount)]
       IN  /\ accounts' = [i \in 1..Len(accounts) |-> r[i].balance]
           /\ acc_out' = [i \in 1..Len(accounts) |-> Line(r[i])]
    /\ acc_op' = [op |-> "withdraw", amount |-> amount, before |-> accounts]
    /\ UNCHANGED <<saving_accounts, acc_rest>>

\* void deposit(std::vector<Saving_account> &saving_accounts, double amount)
DepositSaving(amount) ==
    /\ Fits(saving_accounts, amount)
    /\ LET r == [i \in 1..Len(saving_accounts) |->
                    Saving_account_deposit(saving_accounts[i], amount)]
       IN  /\ saving_accounts' = [i \in 1..Len(saving_accounts) |-> r[i].balance]
           /\ acc_out' = [i \in 1..Len(saving_accounts) |-> Line(r[i])]
    /\ acc_op' = [op |-> "deposit_saving", amount |-> amount,
                  before |-> saving_accounts]
    /\ UNCHANGED <<accounts, acc_rest>>

AccNext ==
    \/ \E amount \in Amounts : Deposit(amount)
    \/ \E amount \in Amounts : Withdraw(amount)
    \/ \E amount \in Amounts : DepositSaving(amount)

\* The collection the last batch call worked on, as it is now.
Target == IF acc_op.op = "deposit_saving" THEN saving_accounts ELSE accounts

\* C6: a deposit succeeds, adding exactly amount to the balance, iff
\* amount > 0, and otherwise fails leaving the balance as it was; the batch
\* helpers do this for every account of their collection, one outcome each.
C6_DepositIffPositive ==
    acc_op.op \in {"deposit", "deposit_saving"} =>
        /\ Len(acc_out) = Len(acc_op.before)
        /\ Len(Target) = Len(acc_op.before)
        /\ \A i \in 1..Len(acc_op.before) :
              /\ acc_out[i].ok = (acc_op.amount > 0)
              /\ acc_out[i].ok => Target[i] = acc_op.before[i] + acc_op.amount
              /\ ~acc_out[i].ok => Target[i] = acc_op.before[i]
              /\ acc_out[i].balance = Target[i]

\* A batch deposit of a positive amount has just been applied to accounts
\* with different balances.
C6_Witness ==
    /\ acc_op.op = "deposit" /\ acc_op.amount > 0
    /\ Len(accounts) >= 2
    /\ accounts[1] # accounts[2]
    /\ accounts[1] = acc_op.before[1] + acc_op.amount

\* C7: a withdrawal succeeds, taking exactly amount from the balance, iff
\* amount > 0 and amount <= balance, and otherwise fails leaving the balance
\* as it was; no balance is ever negative.
C7_WithdrawIffCovered ==
    /\ \A i \in 1..Len(accounts) : accounts[i] >= 0
    /\ \A i \in 1..Len(saving_accounts) : saving_accounts[i] >= 0
    /\ acc_op.op = "withdraw" =>
        /\ Len(acc_out) = Len(acc_op.before)
        /\ Len(accounts) = Len(acc_op.before)
        /\ \A i \in 1..Len(acc_op.before) :
              /\ acc_out[i].ok = (acc_op.amount > 0 /\ acc_op.amount <= acc_op.before[i])
              /\ acc_out[i].ok => accounts[i] = acc_op.before[i] - acc_op.amount
              /\ ~acc_out[i].ok => accounts[i] = acc_op.before[i]

\* One batch withdrawal succeeded on one account and failed, for lack of
\* balance, on another.
C7_Witness ==
    /\ acc_op.op = "withdraw" /\ acc_op.amount > 0
    /\ Len(accounts) >= 2
    /\ acc_out[1].ok /\ ~acc_out[2].ok
    /\ accounts[1] = acc_op.before[1] - acc_op.amount

(***************************************************************************)
(* operatorOverloading/assignmentOperator(move): class String (String.h).  *)
(* The header declares the members; their bodies follow the contract of    *)
(* the owning string wrapper.                                              *)
(***************************************************************************)
StrSlots == 1..NumStr
Buffers == 1..MaxBuf
RawTexts == {"", "hi", "yo"}

\* char *str: a buffer, or 0 for the null pointer.
NoString == [alive |-> FALSE, str |-> 0]
FreshBuffer == [state |-> "unallocated", text |-> "", frees |-> 0]
NoStrOp == [op |-> "none", this |-> 0, rhs |-> 0, this_text |-> "", rhs_text |-> ""]

StrIdle ==
    /\ strs = [i \in StrSlots |-> NoString]
    /\ heap = [b \in Buffers |-> FreshBuffer]
    /\ str_op = NoStrOp

StrInit == StrIdle

\* new char[...] followed by strcpy: the next unused buffer, holding text.
CanAllocate(h) == \E b \in Buffers : h[b].state = "unallocated"
NewBuffer(h) == CHOOSE b \in Buffers :
                    /\ h[b].state = "unallocated"
                    /\ \A c \in Buffers : h[c].state = "unallocated" => b <= c
Allocate(h, text) ==
    [h EXCEPT ![NewBuffer(h)] = [state |-> "live", text |-> text, frees |-> 0]]

\* delete [] str: no effect on the null pointer.
Release(h, p) ==
    IF p = 0 THEN h
    ELSE [h EXCEPT ![p] = [state |-> "freed", text |-> @.text, frees |-> @.frees + 1]]

\* const char *get_str() const, read as text; an object without a buffer is empty.
TextOf(h, s) == IF s.str = 0 THEN "" ELSE h[s.str].text

StrDid(o, i, j) ==
    [op |-> o, this |-> i, rhs |-> j,
     this_text |-> TextOf(heap, strs[i]), rhs_text |-> TextOf(heap, strs[j])]

\* String::String(): an empty string in owned storage.
String_Default(i) ==
    /\ ~strs[i].alive
    /\ CanAllocate(heap)
    /\ heap' = Allocate(heap, "")
    /\ strs' = [strs EXCEPT ![i] = [alive |-> TRUE, str |-> NewBuffer(heap)]]
    /\ str_op' = StrDid("ctor", i, i)
    /\ UNCHANGED str_rest

\* String::String(const char *const str): duplicates the text.
String_Raw(i, text) ==
    /\ ~strs[i].alive
    /\ CanAllocate(heap)
    /\ heap' = Allocate(heap, text)
    /\ strs' = [strs EXCEPT ![i] = [alive |-> TRUE, str |-> NewBuffer(heap)]]
    /\ str_op' = StrDid("raw_ctor", i, i)
    /\ UNCHANGED str_rest

\* String::String(const String &source): duplicates the source's buffer.
String_Copy(i, j) ==
    /\ ~strs[i].alive /\ strs[j].alive
    /\ CanAllocate(heap)
    /\ heap' = Allocate(heap, TextOf(heap, strs[j]))
    /\ strs' = [strs EXCEPT ![i] = [alive |-> TRUE, str |-> NewBuffer(heap)]]
    /\ str_op' = StrDid("copy_ctor", i, j)
    /\ UNCHANGED str_rest

\* String::String(String &&source): takes the buffer, leaves the source empty.
String_Move(i, j) ==
    /\ ~strs[i].alive /\ strs[j].alive
    /\ strs' = [strs EXCEPT ![i] = [alive |-> TRUE, str |-> strs[j].str],
                            ![j] = [alive |-> TRUE, str |-> 0]]
    /\ heap' = heap
    /\ str_op' = StrDid("move_ctor", i, j)
    /\ UNCHANGED str_rest

\* String::~String(): releases the owned storage.
String_Destroy(i) ==
    /\ strs[i].alive
    /\ heap' = Release(heap, strs[i].str)
    /\ strs' = [strs EXCEPT ![i] = NoString]
    /\ str_op' = StrDid("dtor", i, i)
    /\ UNCHANGED str_rest

\* String &String::operator=(const String &source)
String_CopyAssign(i, j) ==
    /\ strs[i].alive /\ strs[j].alive
    /\ IF i = j
         THEN UNCHANGED <<heap, strs>>
         ELSE /\ CanAllocate(heap)
              /\ LET h == Release(heap, strs[i].str)
                 IN  /\ heap' = Allocate(h, TextOf(heap, strs[j]))
                     /\ strs' = [strs EXCEPT ![i].str = NewBuffer(h)]
    /\ str_op' = StrDid("copy_assign", i, j)
    /\ UNCHANGED str_rest

\* String &String::operator=(String &&source)
\* The move assignment without the self-assignment test.
String_MoveAssignNoSelfCheck(i, j) ==
    /\ strs[i].alive /\ strs[j].alive
    /\ heap' = Release(heap, strs[i].str)
    /\ strs' = [[strs EXCEPT ![i].str = strs[j].str] EXCEPT ![j].str = 0]
    /\ str_op' = StrDid("move_assign", i, j)
    /\ UNCHANGED str_rest

\* The move assignment that does not reset the source's pointer.
String_MoveAssignSharing(i, j) ==
    /\ strs[i].alive /\ strs[j].alive
    /\ IF i = j
         THEN UNCHANGED <<heap, strs>>
         ELSE /\ heap' = Release(heap, strs[i].str)
              /\ strs' = [strs EXCEPT ![i].str = strs[j].str]
    /\ str_op' = StrDid("move_assign", i, j)
    /\ UNCHANGED str_rest

\* The move assignment: self-assignment returns at once; otherwise the own
\* buffer is released, the source's taken and the source left without one.
String_MoveAssign(i, j) ==
    /\ strs[i].alive /\ strs[j].alive
    /\ IF i = j
         THEN UNCHANGED <<heap, strs>>
         ELSE /\ heap' = Release(heap, strs[i].str)
              /\ strs' = [strs EXCEPT ![i].str = strs[j].str, ![j].str = 0]
    /\ str_op' = StrDid("move_assign", i, j)
    /\ UNCHANGED str_rest

StrNext ==
    \/ \E i \in StrSlots : String_Default(i)
    \/ \E i \in StrSlots, text \in RawTexts : String_Raw(i, text)
    \/ \E i \in StrSlots, j \in StrSlots : String_Copy(i, j)
    \/ \E i \in StrSlots, j \in StrSlots : String_Move(i, j)
    \/ \E i \in StrSlots : String_Destroy(i)
    \/ \E i \in StrSlots, j \in StrSlots : String_CopyAssign(i, j)
    \/ \E i \in StrSlots, j \in StrSlots : String_MoveAssign(i, j)

\* C8: after a move assignment or a move construction between two objects the
\* destination holds the source's original text and the source is empty; a
\* copy or move assignment of an object to itself leaves its text as it was.
C8_MoveTransfersText ==
    /\ (str_op.op \in {"move_assign", "move_ctor"} /\ str_op.this # str_op.rhs) =>
          /\ TextOf(heap, strs[str_op.this]) = str_op.rhs_text
          /\ TextOf(heap, strs[str_op.rhs]) = ""
    /\ (str_op.op \in {"move_assign", "copy_assign"} /\ str_op.this = str_op.rhs) =>
          /\ TextOf(heap, strs[str_op.this]) = str_op.this_text
          /\ strs[str_op.this].str # 0 => heap[strs[str_op.this].str].state = "live"

\* A move assignment replaced a non-empty text by another non-empty text.
C8_Witness ==
    /\ str_op.op = "move_assign" /\ str_op.this # str_op.rhs
    /\ str_op.rhs_text # "" /\ str_op.this_text # ""
    /\ str_op.rhs_text # str_op.this_text

Owners(b) == {i \in StrSlots : strs[i].alive /\ strs[i].str = b}

\* C9: no buffer is released twice, every buffer not yet released is owned by
\* exactly one live String (so none is leaked and none is shared), and no live
\* String points to a released or never allocated buffer.
C9_BuffersReleasedOnce ==
    /\ \A b \in Buffers :
          /\ heap[b].frees <= 1
          /\ heap[b].state = "live" => Cardinality(Owners(b)) = 1
          /\ heap[b].state # "live" => Owners(b) = {}
    /\ \A i \in StrSlots : ~strs[i].alive => strs[i].str = 0

\* Every String has been destroyed after buffers were handed over by a move
\* and duplicated by a copy: each buffer allocated was released once.
C9_Witness ==
    /\ \A i \in StrSlots : ~strs[i].alive
    /\ Cardinality({b \in Buffers : heap[b].state = "freed" /\ heap[b].frees = 1}) >= 2
    /\ \A b \in Buffers : heap[b].state # "live"

(***************************************************************************)
(* standardTemplateLibrary/sequenceContainerArray: std::array<int, 5>      *)
(***************************************************************************)
N == 5
ArrValues == 0..MaxElem
Arrays == [1..N -> ArrValues]

\* std::array<int, N> x = {list}: at most N initializers, the remaining
\* elements are value-initialized (0).
FromList(list) == [i \in 1..N |-> IF i <= Len(list) THEN list[i] ELSE 0]

\* The initializer lists tried: {}, {1}, {1, 2}, ... with the values taken
\* round the value range, as in {1, 2, 3, 4, 5}.
InitLists == {[i \in 1..m |-> i % (MaxElem + 1)] : m \in 0..N}

NoArrOp == [op |-> "none", value |-> 0, before1 |-> <<>>, before2 |-> <<>>]

ArrIdle == arr1 = <<>> /\ arr2 = <<>> /\ arr_op = NoArrOp

\* test1, test2, lines 51-52 and 80-81: two arrays built from lists.
ArrInit ==
    /\ arr1 \in {FromList(l) : l \in InitLists}
    /\ arr2 \in {FromList(l) : l \in InitLists}
    /\ arr_op = NoArrOp

ArrDid(o, v) == [op |-> o, value |-> v, before1 |-> <<>>, before2 |-> <<>>]

\* arr1[i] = v;  (line 65; i is in range: operator[] does not check)
IndexWrite(i, v) ==
    /\ i \in 0..(N - 1)
    /\ arr1' = [arr1 EXCEPT ![i + 1] = v]
    /\ arr_op' = ArrDid("write", 0)
    /\ UNCHANGED <<arr2, arr_rest>>

\* arr1.at(i) = v;  (line 66; at() throws std::out_of_range for i >= N)
AtWrite(i, v) ==
    /\ IF i < N
         THEN /\ arr1' = [arr1 EXCEPT ![i + 1] = v]
              /\ arr_op' = ArrDid("write", 0)
         ELSE /\ arr1' = arr1
              /\ arr_op' = ArrDid("at_throw", 0)
    /\ UNCHANGED <<arr2, arr_rest>>

\* arr2 = {list};  (line 57)
Reassign(list) ==
    /\ arr2' = FromList(list)
    /\ arr_op' = ArrDid("assign", 0)
    /\ UNCHANGED <<arr1, arr_rest>>

\* arr1.fill(v);  (line 86)
Fill(v) ==
    /\ arr1' = [i \in 1..N |-> v]
    /\ arr_op' = ArrDid("fill", v)
    /\ UNCHANGED <<arr2, arr_rest>>

\* arr1.swap(arr2);  (line 91)
\* A swap that overwrites arr1 before saving it.
SwapNoTemp ==
    /\ arr1' = arr2
    /\ arr2' = arr2
    /\ arr_op' = [op |-> "swap", value |-> 0, before1 |-> arr1, before2 |-> arr2]
    /\ UNCHANGED arr_rest

\* The swap: the two arrays exchange their contents.
Swap ==
    /\ arr1' = arr2
    /\ arr2' = arr1
    /\ arr_op' = [op |-> "swap", value |-> 0, before1 |-> arr1, before2 |-> arr2]
    /\ UNCHANGED arr_rest

\* std::sort on ints, computed by insertion: x put before the first larger
\* element of an ascending sequence.
RECURSIVE InsertSorted(_, _)
InsertSorted(s, x) ==
    IF s = <<>> THEN <<x>>
    ELSE IF x <= Head(s) THEN <<x>> \o s
    ELSE <<Head(s)>> \o InsertSorted(Tail(s), x)

RECURSIVE InsertionSort(_)
InsertionSort(s) ==
    IF s = <<>> THEN <<>>
    ELSE InsertSorted(InsertionSort(Tail(s)), Head(s))

\* std::sort(arr.begin(), arr.end());  (line 118)
Sort ==
    /\ arr1' = InsertionSort(arr1)
    /\ arr_op' = [op |-> "sort", value |-> 0, before1 |-> arr1, before2 |-> <<>>]
    /\ UNCHANGED <<arr2, arr_rest>>

ArrNext ==
    \/ \E i \in 0..(N - 1), v \in ArrValues : IndexWrite(i, v)
    \/ \E i \in 0..N, v \in ArrValues : AtWrite(i, v)
    \/ \E list \in InitLists : Reassign(list)
    \/ \E v \in ArrValues : Fill(v)
    \/ Swap
    \/ Sort

Count(s, v) == Cardinality({i \in 1..Len(s) : s[i] = v})
SameElements(s, t) == Len(s) = Len(t) /\ \A v \in ArrValues : Count(s, v) = Count(t, v)
Ascending(s) == \A i \in 1..(Len(s) - 1) : s[i] <= s[i + 1]

\* C10: after any sequence of indexed writes, checked writes, fill, swap,
\* reassignment and sort both arrays still have length N; fill(v) leaves every
\* element equal to v; swap exchanges the full contents of the two arrays;
\* sort leaves the same elements, as many times each, in ascending order.
C10_FixedLength ==
    /\ Len(arr1) = N /\ Len(arr2) = N
    /\ arr_op.op = "fill" => \A i \in 1..N : arr1[i] = arr_op.value
    /\ arr_op.op = "swap" => (arr1 = arr_op.before2 /\ arr2 = arr_op.before1)
    /\ arr_op.op = "sort" => (Ascending(arr1) /\ SameElements(arr1, arr_op.before1))

\* A sort has just put an array that was not ascending in order.
C10_Witness ==
    /\ arr_op.op = "sort"
    /\ ~Ascending(arr_op.before1)
    /\ arr1 # arr2

(***************************************************************************)
(* Specifications                                                          *)
(***************************************************************************)
InitMoveBackward ==
    /\ MBInit
    /\ ShiftIdle /\ SIdle /\ AccIdle /\ StrIdle /\ ArrIdle

SpecMoveBackward == InitMoveBackward /\ [][MBNext]_vars

InitShiftLeft ==
    /\ ShiftInit
    /\ MBIdle /\ SIdle /\ AccIdle /\ StrIdle /\ ArrIdle

SpecShiftLeft == InitShiftLeft /\ [][ShiftNext]_vars

InitS ==
    /\ SInit
    /\ MBIdle /\ ShiftIdle /\ AccIdle /\ StrIdle /\ ArrIdle

SpecS == InitS /\ [][SNext]_vars

InitAccount ==
    /\ AccInit
    /\ MBIdle /\ ShiftIdle /\ SIdle /\ StrIdle /\ ArrIdle

SpecAccount == InitAccount /\ [][AccNext]_vars

InitString ==
    /\ StrInit
    /\ MBIdle /\ ShiftIdle /\ SIdle /\ AccIdle /\ ArrIdle

SpecString == InitString /\ [][StrNext]_vars

InitArray ==
    /\ ArrInit
    /\ MBIdle /\ ShiftIdle /\ SIdle /\ AccIdle /\ StrIdle

SpecArray == InitArray /\ [][ArrNext]_vars

====
